---- MODULE Spec2Model ----
(***************************************************************************)
(* Earley chart parser (src/src/earley.rs): the Chart, its worklist, its   *)
(* dedup set, the predict / scan / complete step and the reconstruction of *)
(* derivation trees from edge histories.                                   *)
(***************************************************************************)
EXTENDS Integers, Sequences, FiniteSets, TLC

(***************************************************************************)
(* Bounds of the model.                                                    *)
(***************************************************************************)
\* Longest input token sequence handed to Chart::new.
MaxInputLen == 3
\* process_one is not taken on an edge whose history nests this deep: it
\* keeps the runs of grammars with unboundedly many edges finite.
MaxDepth == 6
\* How many times set_trace may change the trace flag during one run.
MaxToggles == 1

(***************************************************************************)
(* Grammar model: Symbol, Production, DottedRule.                          *)
(***************************************************************************)
\* Symbol::Nonterminal(n)
Nt(n) == [kind |-> "Nonterminal", sym |-> n]

\* Symbol::Terminal(t)
T(t) == [kind |-> "Terminal", sym |-> t]

\* Option::None of next_symbol
NoSymbol == [kind |-> "None", sym |-> "None"]

\* Nonterminal::start()
start == "S"

\* Production::new
Production(lhs, rhs) == [lhs |-> lhs, rhs |-> rhs]

\* Production::into_dotted_rule panics when dot_pos > rhs.len()
into_dotted_rule_panics(production, dot_pos) == dot_pos > Len(production.rhs)

\* Production::into_dotted_rule
into_dotted_rule(production, dot_pos) ==
    [production |-> production, dot_pos |-> dot_pos]

\* DottedRule::next_symbol
next_symbol(dotted_rule) ==
    IF dotted_rule.dot_pos >= Len(dotted_rule.production.rhs)
    THEN NoSymbol
    ELSE dotted_rule.production.rhs[dotted_rule.dot_pos + 1]

\* DottedRule::advanced_dot panics when the dot is at the end
advanced_dot_panics(dotted_rule) ==
    dotted_rule.dot_pos >= Len(dotted_rule.production.rhs)

\* DottedRule::advanced_dot
advanced_dot(dotted_rule) ==
    [dotted_rule EXCEPT !.dot_pos = @ + 1]

\* DottedRule::is_complete
is_complete(dotted_rule) ==
    dotted_rule.dot_pos >= Len(dotted_rule.production.rhs)

\* struct ChartEdge: equality and hash are derived, so they cover history
ChartEdge(dotted_rule, s, e, history) ==
    [dotted_rule |-> dotted_rule, start |-> s, end |-> e, history |-> history]

(***************************************************************************)
(* Grammars and inputs the model runs the chart on.                        *)
(***************************************************************************)
\* S -> a
G_Single == << Production("S", <<T("a")>>) >>

\* S -> S x | x   (left recursion)
G_LeftRec ==
    << Production("S", <<Nt("S"), T("x")>>),
       Production("S", <<T("x")>>) >>

\* S -> A | B, A -> x, B -> x   (ambiguity)
G_Ambig ==
    << Production("S", <<Nt("A")>>),
       Production("S", <<Nt("B")>>),
       Production("A", <<T("x")>>),
       Production("B", <<T("x")>>) >>

\* S -> S | a   (a nonterminal that produces itself)
G_Cyclic ==
    << Production("S", <<Nt("S")>>),
       Production("S", <<T("a")>>) >>

\* S -> A A, A -> (empty) | a   (empty production)
G_Nullable ==
    << Production("S", <<Nt("A"), Nt("A")>>),
       Production("A", <<>>),
       Production("A", <<T("a")>>) >>

\* S -> A x, A -> B | C, B -> y, C -> y   (ambiguity left of a terminal)
G_AmbigLeft ==
    << Production("S", <<Nt("A"), T("x")>>),
       Production("A", <<Nt("B")>>),
       Production("A", <<Nt("C")>>),
       Production("B", <<T("y")>>),
       Production("C", <<T("y")>>) >>

\* S -> x A, A -> y   (terminal left of a nonterminal)
G_TermFirst ==
    << Production("S", <<T("x"), Nt("A")>>),
       Production("A", <<T("y")>>) >>

\* S -> N U | N M, U -> V, V -> W, W -> M, M -> t, N -> n
\* (the same nonterminal M is reached at one position along a short and a
\* long chain of predictions)
G_Chain ==
    << Production("S", <<Nt("N"), Nt("U")>>),
       Production("S", <<Nt("N"), Nt("M")>>),
       Production("U", <<Nt("V")>>),
       Production("V", <<Nt("W")>>),
       Production("W", <<Nt("M")>>),
       Production("M", <<T("t")>>),
       Production("N", <<T("n")>>) >>

\* S -> A B z | C B, A -> x, C -> D, D -> E, E -> x, B -> y
\* (B is completed at position 1 before the edge S -> C . B exists)
G_Late ==
    << Production("S", <<Nt("A"), Nt("B"), T("z")>>),
       Production("S", <<Nt("C"), Nt("B")>>),
       Production("A", <<T("x")>>),
       Production("C", <<Nt("D")>>),
       Production("D", <<Nt("E")>>),
       Production("E", <<T("x")>>),
       Production("B", <<T("y")>>) >>

\* A -> a   (no production of the start nonterminal)
G_NoStart == << Production("A", <<T("a")>>) >>

\* S -> a B | a   (B occurs on a right-hand side and has no production)
G_Undefined ==
    << Production("S", <<T("a"), Nt("B")>>),
       Production("S", <<T("a")>>) >>

\* S -> a, S -> a, S -> (empty)   (a start production handed over twice)
G_Twice ==
    << Production("S", <<T("a")>>),
       Production("S", <<T("a")>>),
       Production("S", <<>>) >>

\* S -> (empty), S -> (empty)   (an empty start production handed over twice)
G_EmptyTwice ==
    << Production("S", <<>>),
       Production("S", <<>>) >>

\* S -> S A | (empty), A -> a   (the seed edge of an empty start production is
\* what another seed edge waits for)
G_EmptySeed ==
    << Production("S", <<Nt("S"), Nt("A")>>),
       Production("S", <<>>),
       Production("A", <<T("a")>>) >>

Grammars ==
    { G_Single, G_LeftRec, G_Ambig, G_Cyclic, G_Nullable, G_AmbigLeft,
      G_TermFirst, G_Chain, G_Late, G_NoStart, G_Undefined, G_Twice,
      G_EmptyTwice, G_EmptySeed }

\* The terminals that occur in a list of productions.
TerminalsOf(productions) ==
    UNION { { productions[i].rhs[k].sym :
                k \in { j \in DOMAIN productions[i].rhs :
                          productions[i].rhs[j].kind = "Terminal" } } :
            i \in DOMAIN productions }

\* The input token sequences tried with a list of productions.
Inputs(productions) ==
    UNION { [1..n -> TerminalsOf(productions)] : n \in 0..MaxInputLen }

(***************************************************************************)
(* Chart: the state.                                                       *)
(***************************************************************************)
VARIABLES
    input_string,          \* Vec<T>: string to parse
    productions_by_lhs,    \* HashMap<N, Vec<Production>>
    all_edges,             \* HashSet<ChartEdge>
    to_process,            \* VecDeque<ChartEdge>
    complete_derivations,  \* Vec<ChartEdge>
    trace_chart,           \* Vec<(ChartEdge, Vec<usize>)>, each usize as usize(n)
    trace,                 \* bool
    err,                   \* "none", or the message of the panic that ended the run
    returned,              \* <<edge>>: what the last process_one returned; <<>> before
                           \* the first call and when the call panicked
    toggles,               \* number of set_trace calls that changed the flag
    dequeued,              \* the edges process_one has returned so far, in order
    traced_all,            \* trace was true during every process_one so far
    derivable              \* the triples <<A, i, j>> such that A derives
                           \* input[i..j): fixed by the arguments of Chart::new

vars == << input_string, productions_by_lhs, all_edges, to_process,
           complete_derivations, trace_chart, trace, err, returned, toggles,
           dequeued, traced_all, derivable >>

\* The Chart value held by the variables.
Chart ==
    [ input_string |-> input_string,
      productions_by_lhs |-> productions_by_lhs,
      all_edges |-> all_edges,
      to_process |-> to_process,
      complete_derivations |-> complete_derivations,
      trace_chart |-> trace_chart,
      trace |-> trace,
      err |-> err ]

(***************************************************************************)
(* Chart: construction, the insertion gate, the trace recorder.            *)
(***************************************************************************)
\* The value that stays of a Chart once a panic has ended the call.
Panicked(c, message) == [c EXCEPT !.err = message]

\* Chart::new, first loop: the productions grouped by LHS, in insertion order.
group_by_lhs(productions) ==
    [ n \in { productions[i].lhs : i \in DOMAIN productions } |->
        SelectSeq(productions, LAMBDA p : p.lhs = n) ]

\* seed_edges that seeds the first production of the start nonterminal only.
seed_edges_first_only(prods) ==
    << ChartEdge(into_dotted_rule(prods[1], 0), 0, 0, <<>>) >>

\* Chart::new, second loop: one edge per production of the start nonterminal.
seed_edges(prods) ==
    [ i \in DOMAIN prods |-> ChartEdge(into_dotted_rule(prods[i], 0), 0, 0, <<>>) ]

\* The elements of a sequence.
Range(seq) == { seq[i] : i \in DOMAIN seq }

\* new_with that seeds nothing, instead of panicking, when the start
\* nonterminal has no production.
new_with_unchecked(input, by_lhs) ==
    LET blank == [ input_string |-> input,
                   productions_by_lhs |-> by_lhs,
                   all_edges |-> {},
                   to_process |-> <<>>,
                   complete_derivations |-> <<>>,
                   trace_chart |-> <<>>,
                   trace |-> FALSE,
                   err |-> "none" ]
    IN  IF start \notin DOMAIN by_lhs
        THEN blank
        ELSE [ blank EXCEPT !.to_process = seed_edges(by_lhs[start]),
                            !.all_edges = Range(seed_edges(by_lhs[start])) ]

\* Chart::new after the grouping: the seed edges, or the panic.
new_with(input, by_lhs) ==
    LET blank == [ input_string |-> input,
                   productions_by_lhs |-> by_lhs,
                   all_edges |-> {},
                   to_process |-> <<>>,
                   complete_derivations |-> <<>>,
                   trace_chart |-> <<>>,
                   trace |-> FALSE,
                   err |-> "none" ]
    IN  IF start \notin DOMAIN by_lhs
        THEN Panicked(blank, "No starting productions")
        ELSE IF \E i \in DOMAIN by_lhs[start] : into_dotted_rule_panics(by_lhs[start][i], 0)
        THEN Panicked(blank, "Attempted to create dotted rule")
        ELSE [ blank EXCEPT !.to_process = seed_edges(by_lhs[start]),
                            !.all_edges = Range(seed_edges(by_lhs[start])) ]

\* Chart::new
new(input, productions) == new_with(input, group_by_lhs(productions))

\* A usize of a 64-bit target, held as its four base-65536 digits, most
\* significant first: <<d3, d2, d1, d0>> is d3 * 65536^3 + d2 * 65536^2 +
\* d1 * 65536 + d0.  (The integers of TLC are 32 bits wide and cannot hold
\* usize::MAX.)  usize(n) is the usize of the number n < 2^31.
usize(n) == << 0, 0, n \div 65536, n % 65536 >>

\* usize::MAX = 2^64 - 1 = 18446744073709551615, the index add_to_trace_chart
\* gives a history edge it does not find in trace_chart.
usize_MAX == << 65535, 65535, 65535, 65535 >>

\* add_to_trace_chart, the closure: the first index j (from 0) with
\* trace_chart[j].0 == e, or usize::MAX.
trace_index(tc, e) ==
    LET hits == { j \in DOMAIN tc : tc[j][1] = e }
    IN  IF hits = {} THEN usize_MAX
        ELSE usize((CHOOSE j \in hits : \A k \in hits : j <= k) - 1)

\* add_to_trace_chart that also queues the edge it records.
add_to_trace_chart_and_queue(c, edge) ==
    IF c.trace
    THEN [ c EXCEPT !.trace_chart =
             Append(@, << edge,
                          [ i \in DOMAIN edge.history |->
                              trace_index(c.trace_chart, edge.history[i]) ] >>),
                    !.to_process = Append(@, edge) ]
    ELSE c

\* Chart::add_to_trace_chart
add_to_trace_chart(c, edge) ==
    IF c.trace
    THEN [ c EXCEPT !.trace_chart =
             Append(@, << edge,
                          [ i \in DOMAIN edge.history |->
                              trace_index(c.trace_chart, edge.history[i]) ] >>) ]
    ELSE c

\* add_edge that puts the accepted edge at the front of the worklist.
add_edge_push_front(c, new_edge) ==
    IF new_edge \notin c.all_edges
    THEN LET traced == add_to_trace_chart(c, new_edge)
         IN  [ traced EXCEPT !.to_process = << new_edge >> \o @,
                             !.all_edges = @ \cup {new_edge} ]
    ELSE c

\* Chart::add_edge: the insertion gate.
add_edge(c, new_edge) ==
    IF new_edge \notin c.all_edges
    THEN LET traced == add_to_trace_chart(c, new_edge)
         IN  [ traced EXCEPT !.to_process = Append(@, new_edge),
                             !.all_edges = @ \cup {new_edge} ]
    ELSE c

\* Chart::add_edges
RECURSIVE add_edges(_, _)
add_edges(c, new_edges) ==
    IF new_edges = <<>> THEN c
    ELSE add_edges(add_edge(c, Head(new_edges)), Tail(new_edges))

(***************************************************************************)
(* Chart: the predict / scan / complete step.                              *)
(***************************************************************************)
\* more_to_process that answers true whatever the worklist holds.
more_to_process_always(c) == TRUE

\* Chart::more_to_process
more_to_process(c) == c.to_process # <<>>

\* predict that takes a nonterminal without productions to have none, instead
\* of panicking.
predict_lenient(c, edge, nonterminal) ==
    IF nonterminal \notin DOMAIN c.productions_by_lhs
    THEN c
    ELSE LET productions == c.productions_by_lhs[nonterminal]
         IN  add_edges(c, [ i \in DOMAIN productions |->
                              ChartEdge(into_dotted_rule(productions[i], 0),
                                        edge.end, edge.end, <<>>) ])

\* process_one, Predict: one fresh edge per production of the nonterminal.
predict(c, edge, nonterminal) ==
    IF nonterminal \notin DOMAIN c.productions_by_lhs
    THEN Panicked(c, "Expected non-terminal to have a production")
    ELSE LET productions == c.productions_by_lhs[nonterminal]
         IN  IF \E i \in DOMAIN productions : into_dotted_rule_panics(productions[i], 0)
             THEN Panicked(c, "Attempted to create dotted rule")
             ELSE add_edges(c, [ i \in DOMAIN productions |->
                                   ChartEdge(into_dotted_rule(productions[i], 0),
                                             edge.end, edge.end, <<>>) ])

\* token_matches that accepts whatever token the input holds at edge.end.
token_matches_any(c, edge, terminal) ==
    edge.end < Len(c.input_string)

\* process_one, Scan: input_string.get(edge.end) == Some(&terminal)
token_matches(c, edge, terminal) ==
    /\ edge.end < Len(c.input_string)
    /\ c.input_string[edge.end + 1] = terminal

\* process_one, Scan: the edge built when the token matches.
scanned_edge(edge) ==
    ChartEdge(advanced_dot(edge.dotted_rule), edge.start, edge.end + 1, <<>>)

\* process_one, Scan
scan(c, edge, terminal) ==
    IF token_matches(c, edge, terminal)
    THEN IF advanced_dot_panics(edge.dotted_rule)
         THEN Panicked(c, "Attempted to advance dot when nowhere to advance to")
         ELSE add_edge(c, scanned_edge(edge))
    ELSE c

\* is_complete_derivation without its test of edge.end().
is_complete_derivation_any_end(c, edge) ==
    /\ edge.dotted_rule.production.lhs = start
    /\ edge.start = 0

\* process_one, Complete: the test that records a complete derivation.
is_complete_derivation(c, edge) ==
    /\ edge.dotted_rule.production.lhs = start
    /\ edge.start = 0
    /\ edge.end = Len(c.input_string)

\* is_waiting_for without its test of the position.
is_waiting_for_anywhere(other_edge, edge) ==
    next_symbol(other_edge.dotted_rule) = Nt(edge.dotted_rule.production.lhs)

\* is_waiting_for without its test of the next symbol.
is_waiting_for_any_symbol(other_edge, edge) ==
    other_edge.end = edge.start

\* process_one, Complete: the filter of the filter_map over all_edges.
is_waiting_for(other_edge, edge) ==
    /\ next_symbol(other_edge.dotted_rule) = Nt(edge.dotted_rule.production.lhs)
    /\ other_edge.end = edge.start

\* process_one, Complete: the edges of all_edges the filter keeps.
waiting_edges(c, edge) == { o \in c.all_edges : is_waiting_for(o, edge) }

\* completed_edge without the push of the completed edge onto the history.
completed_edge_without_push(other_edge, edge) ==
    ChartEdge(advanced_dot(other_edge.dotted_rule), other_edge.start, edge.end,
              other_edge.history)

\* completed_edge that pushes the waiting edge onto the history, in place of
\* the completed one.
completed_edge_pushing_waiting(other_edge, edge) ==
    ChartEdge(advanced_dot(other_edge.dotted_rule), other_edge.start, edge.end,
              Append(other_edge.history, other_edge))

\* process_one, Complete: the edge built from a waiting edge.
completed_edge(other_edge, edge) ==
    ChartEdge(advanced_dot(other_edge.dotted_rule), other_edge.start, edge.end,
              Append(other_edge.history, edge))

\* process_one, Complete.  order lists waiting_edges in the order in which the
\* iteration of the HashSet all_edges meets them.
complete(c, edge, order) ==
    LET recorded == IF is_complete_derivation(c, edge)
                    THEN [ c EXCEPT !.complete_derivations = Append(@, edge) ]
                    ELSE c
    IN  IF \E i \in DOMAIN order : advanced_dot_panics(order[i].dotted_rule)
        THEN Panicked(recorded, "Attempted to advance dot when nowhere to advance to")
        ELSE add_edges(recorded,
                       [ i \in DOMAIN order |-> completed_edge(order[i], edge) ])

\* process_one after the pop_front: the match on next_symbol.
process_edge(c, edge, order) ==
    LET sym == next_symbol(edge.dotted_rule)
    IN  CASE sym.kind = "Nonterminal" -> predict(c, edge, sym.sym)
          [] sym.kind = "Terminal" -> scan(c, edge, sym.sym)
          [] OTHER -> complete(c, edge, order)

\* Chart::process_one
process_one(c, order) ==
    IF c.to_process # <<>>
    THEN process_edge([ c EXCEPT !.to_process = Tail(@) ], Head(c.to_process), order)
    ELSE Panicked(c, "No processing left!")

\* The sequences that list every element of a set once.
Perms(S) ==
    { f \in [1..Cardinality(S) -> S] :
        \A i, j \in 1..Cardinality(S) : f[i] = f[j] => i = j }

\* The orders in which the iteration of all_edges can meet the waiting edges
\* when process_one handles edge: any, the HashSet's hasher is seeded at
\* random.  No order matters when the edge is not complete.
orders_for(c, edge) ==
    IF is_complete(edge.dotted_rule)
    THEN Perms(waiting_edges(c, edge))
    ELSE { <<>> }

\* The orders of the next process_one.
iteration_orders(c) ==
    IF c.to_process # <<>> THEN orders_for(c, Head(c.to_process)) ELSE { <<>> }

\* How deep the histories of an edge nest.
RECURSIVE Depth(_)
Depth(edge) ==
    IF edge.history = <<>> THEN 0
    ELSE 1 + (CHOOSE d \in { Depth(edge.history[i]) : i \in DOMAIN edge.history } :
                \A i \in DOMAIN edge.history : Depth(edge.history[i]) <= d)

\* The bound of the model on the nesting of the next edge to process.
WithinDepth(c) ==
    c.to_process = <<>> \/ Depth(Head(c.to_process)) < MaxDepth

(***************************************************************************)
(* What the grammar derives of the input, computed from the grammar and    *)
(* the input alone.                                                        *)
(***************************************************************************)
\* The productions of a grammar, each once.
ProductionsOf(by_lhs) == UNION { Range(by_lhs[n]) : n \in DOMAIN by_lhs }

\* rhs[k..] derives input[i..j), given the triples D already known derivable.
RECURSIVE RhsDerives(_, _, _, _, _, _)
RhsDerives(rhs, k, i, j, D, input) ==
    IF k > Len(rhs) THEN i = j
    ELSE IF rhs[k].kind = "Terminal"
         THEN /\ i < j
              /\ input[i + 1] = rhs[k].sym
              /\ RhsDerives(rhs, k + 1, i + 1, j, D, input)
         ELSE \E m \in i..j :
                /\ << rhs[k].sym, i, m >> \in D
                /\ RhsDerives(rhs, k + 1, m, j, D, input)

\* One round of derivation: the triples <<A, i, j>> with a production of A
\* whose RHS derives input[i..j) from the triples of D.
DerivableStep(by_lhs, input, D) ==
    D \cup { t \in (DOMAIN by_lhs) \X (0..Len(input)) \X (0..Len(input)) :
               /\ t[2] <= t[3]
               /\ \E p \in Range(by_lhs[t[1]]) :
                     RhsDerives(p.rhs, 1, t[2], t[3], D, input) }

\* The least fixed point: every <<A, i, j>> such that A derives input[i..j).
RECURSIVE DerivableFrom(_, _, _)
DerivableFrom(by_lhs, input, D) ==
    LET next == DerivableStep(by_lhs, input, D)
    IN  IF next = D THEN D ELSE DerivableFrom(by_lhs, input, next)

Derivable(by_lhs, input) == DerivableFrom(by_lhs, input, {})

(***************************************************************************)
(* The state machine.                                                      *)
(***************************************************************************)
\* The variables take the fields of a Chart value.
Commit(c) ==
    /\ input_string' = c.input_string
    /\ productions_by_lhs' = c.productions_by_lhs
    /\ all_edges' = c.all_edges
    /\ to_process' = c.to_process
    /\ complete_derivations' = c.complete_derivations
    /\ trace_chart' = c.trace_chart
    /\ trace' = c.trace
    /\ err' = c.err

\* The state after Chart::new(input, productions), for each grammar and input.
Init ==
    \E productions \in Grammars :
        \E input \in Inputs(productions) :
            LET c == new(input, productions)
            IN  /\ input_string = c.input_string
                /\ productions_by_lhs = c.productions_by_lhs
                /\ all_edges = c.all_edges
                /\ to_process = c.to_process
                /\ complete_derivations = c.complete_derivations
                /\ trace_chart = c.trace_chart
                /\ trace = c.trace
                /\ err = c.err
                /\ returned = <<>>
                /\ toggles = 0
                /\ dequeued = <<>>
                /\ traced_all = TRUE
                /\ derivable = Derivable(c.productions_by_lhs, c.input_string)

\* What a call of process_one on c that left the Chart after hands back: the
\* edge it popped, or nothing when it panicked.
process_one_returns(c, after) ==
    IF after.err = "none" THEN << Head(c.to_process) >> ELSE <<>>

\* The record of a call of process_one: what it returned, and whether trace
\* was true during it.
Record(edges) ==
    /\ returned' = edges
    /\ dequeued' = dequeued \o edges
    /\ traced_all' = (traced_all /\ trace)

\* One iteration of the loop of Chart::process_all.
Step_process_all ==
    /\ err = "none"
    /\ more_to_process(Chart)
    /\ WithinDepth(Chart)
    /\ \E order \in iteration_orders(Chart) :
          LET after == process_one(Chart, order)
          IN  Commit(after) /\ Record(process_one_returns(Chart, after))
    /\ UNCHANGED << toggles, derivable >>

\* A call of Chart::process_one once the worklist is empty.
Call_process_one ==
    /\ err = "none"
    /\ ~more_to_process(Chart)
    /\ LET after == process_one(Chart, <<>>)
       IN  Commit(after) /\ Record(process_one_returns(Chart, after))
    /\ UNCHANGED << toggles, derivable >>

\* Chart::set_trace
Call_set_trace ==
    /\ err = "none"
    /\ toggles < MaxToggles
    /\ \E b \in BOOLEAN :
        /\ b # trace
        /\ trace' = b
    /\ toggles' = toggles + 1
    /\ UNCHANGED << input_string, productions_by_lhs, all_edges, to_process,
                    complete_derivations, trace_chart, err, returned,
                    dequeued, traced_all, derivable >>

Next == Step_process_all \/ Call_process_one \/ Call_set_trace

Spec == Init /\ [][Next]_vars

\* process_all has returned.
Done == err = "none" /\ to_process = <<>>

\* Chart::process_all: the Charts it can leave, one per choice of the
\* iteration orders (none for a run the depth bound cuts).
RECURSIVE process_all(_)
process_all(c) ==
    IF c.err # "none" \/ ~more_to_process(c) THEN { c }
    ELSE IF ~WithinDepth(c) THEN {}
    ELSE UNION { process_all(process_one(c, order)) : order \in iteration_orders(c) }

\* The Chart that Chart::new returned for the grammar and input of the run.
InitialChart == new_with(input_string, productions_by_lhs)

\* process_one taking the i-th pending edge instead of the head of the worklist.
process_any(c, i, order) ==
    process_edge([ c EXCEPT !.to_process =
                     SubSeq(@, 1, i - 1) \o SubSeq(@, i + 1, Len(@)) ],
                 c.to_process[i], order)

\* A step of process_all with the FIFO discipline dropped: any pending edge
\* is taken next.
Step_any_order ==
    /\ err = "none"
    /\ \E i \in DOMAIN to_process :
          /\ Depth(to_process[i]) < MaxDepth
          /\ \E order \in orders_for(Chart, to_process[i]) :
                LET after == process_any(Chart, i, order)
                IN  /\ Commit(after)
                    /\ Record(IF after.err = "none" THEN << to_process[i] >> ELSE <<>>)
    /\ UNCHANGED << toggles, derivable >>

\* process_all with the FIFO discipline dropped.
SpecAnyOrder == Init /\ [][Step_any_order]_vars

(***************************************************************************)
(* Derivation trees.                                                       *)
(***************************************************************************)
\* Tree::new
Tree(value, children) == [value |-> value, children |-> children]

\* generate_derivation_tree, the for loop: a leaf for each Terminal of the RHS.
terminal_leaves(rhs) ==
    LET terminals == SelectSeq(rhs, LAMBDA sym : sym.kind = "Terminal")
    IN  [ i \in DOMAIN terminals |-> Tree(terminals[i], <<>>) ]

\* ChartEdge::generate_derivation_tree
RECURSIVE generate_derivation_tree(_)
generate_derivation_tree(edge) ==
    Tree(Nt(edge.dotted_rule.production.lhs),
         [ i \in DOMAIN edge.history |-> generate_derivation_tree(edge.history[i]) ]
            \o terminal_leaves(edge.dotted_rule.production.rhs))

\* Chart::generate_derivation_trees
generate_derivation_trees(c) ==
    [ i \in DOMAIN c.complete_derivations |->
        generate_derivation_tree(c.complete_derivations[i]) ]

(***************************************************************************)
(* What the grammar derives, independently of the chart: the reference the *)
(* properties compare the chart with.                                      *)
(***************************************************************************)
\* The input is in the language of the start nonterminal.
InLanguage(by_lhs, input) ==
    << start, 0, Len(input) >> \in Derivable(by_lhs, input)

\* A derives B in at least one step over the empty rest: some production of A
\* has B on its RHS and every other symbol of that RHS derives the empty string.
UnitStep(by_lhs, a, b) ==
    LET nullable == { n \in DOMAIN by_lhs : << n, 0, 0 >> \in Derivable(by_lhs, <<>>) }
    IN  \E p \in Range(by_lhs[a]) : \E k \in DOMAIN p.rhs :
           /\ p.rhs[k] = Nt(b)
           /\ \A q \in (DOMAIN p.rhs) \ {k} :
                 p.rhs[q].kind = "Nonterminal" /\ p.rhs[q].sym \in nullable

\* The nonterminals reached from those of R by UnitStep, R included.
RECURSIVE UnitClosure(_, _)
UnitClosure(by_lhs, R) ==
    LET more == R \cup { b \in DOMAIN by_lhs : \E a \in R : UnitStep(by_lhs, a, b) }
    IN  IF more = R THEN R ELSE UnitClosure(by_lhs, more)

\* No nonterminal derives itself: the grammar gives every input finitely many
\* derivations.
FinitelyAmbiguous(by_lhs) ==
    \A a \in DOMAIN by_lhs :
       a \notin UnitClosure(by_lhs, { b \in DOMAIN by_lhs : UnitStep(by_lhs, a, b) })

\* The parse trees: SeqTrees is the set of the sequences of trees by which
\* rhs[k..] derives input[i..j), ParseTrees the set of the trees by which the
\* nonterminal a derives input[i..j).  D is Derivable(by_lhs, input).
RECURSIVE SeqTrees(_, _, _, _, _, _, _), ParseTrees(_, _, _, _, _, _)
SeqTrees(by_lhs, input, D, rhs, k, i, j) ==
    IF k > Len(rhs) THEN (IF i = j THEN { <<>> } ELSE {})
    ELSE IF rhs[k].kind = "Terminal"
         THEN IF i < j /\ input[i + 1] = rhs[k].sym
              THEN { << Tree(rhs[k], <<>>) >> \o rest :
                       rest \in SeqTrees(by_lhs, input, D, rhs, k + 1, i + 1, j) }
              ELSE {}
         ELSE UNION { { << first >> \o rest :
                          first \in ParseTrees(by_lhs, input, D, rhs[k].sym, i, m),
                          rest \in SeqTrees(by_lhs, input, D, rhs, k + 1, m, j) } :
                      m \in { n \in i..j : /\ << rhs[k].sym, i, n >> \in D
                                           /\ RhsDerives(rhs, k + 1, n, j, D, input) } }
ParseTrees(by_lhs, input, D, a, i, j) ==
    IF a \notin DOMAIN by_lhs THEN {}
    ELSE UNION { { Tree(Nt(a), children) :
                     children \in SeqTrees(by_lhs, input, D, p.rhs, 1, i, j) } :
                 p \in Range(by_lhs[a]) }

\* The parse trees of the whole input from the start nonterminal.
Derivations(by_lhs, input) ==
    ParseTrees(by_lhs, input, Derivable(by_lhs, input), start, 0, Len(input))

\* The leaves of a tree, left to right.
RECURSIVE Leaves(_)
RECURSIVE ConcatAll(_)
ConcatAll(seqs) ==
    IF seqs = <<>> THEN <<>> ELSE Head(seqs) \o ConcatAll(Tail(seqs))
Leaves(tree) ==
    IF tree.value.kind = "Terminal" THEN << tree.value.sym >>
    ELSE ConcatAll([ i \in DOMAIN tree.children |-> Leaves(tree.children[i]) ])

\* The edges nested anywhere in the history of an edge.
RECURSIVE Descendants(_)
Descendants(edge) ==
    UNION { {edge.history[i]} \cup Descendants(edge.history[i]) :
            i \in DOMAIN edge.history }

\* Two edges are the same Earley item: same dotted rule, same span.
SameItem(e, d) ==
    e.dotted_rule = d.dotted_rule /\ e.start = d.start /\ e.end = d.end

\* The state comes from Chart::new on this list of productions.
GrammarIs(productions) == productions_by_lhs = group_by_lhs(productions)

\* The store is closed under completion: every edge that waits for the
\* nonterminal of a complete edge C where C starts has been advanced over C.
ClosedUnderCompletion ==
    \A C \in all_edges : \A W \in all_edges :
       (is_complete(C.dotted_rule) /\ is_waiting_for(W, C))
          => completed_edge(W, C) \in all_edges

\* No production occurs twice in the list handed to Chart::new.
NoProductionTwice(by_lhs) ==
    \A n \in DOMAIN by_lhs :
       \A i, j \in DOMAIN by_lhs[n] : by_lhs[n][i] = by_lhs[n][j] => i = j

(***************************************************************************)
(* Claims.                                                                 *)
(***************************************************************************)

\* C1: for any finite grammar and input, process_all terminates, because the
\* insertion gate rejects every structurally identical edge.  The gate bounds
\* the store only if no accepted edge is the Earley item (dotted rule and
\* span) of an edge nested in its own history once more: such an edge is not
\* structurally equal to the nested one, so it passes the gate, and its own
\* completion builds the next one in the same way, without end.
C1_NoEdgeRederivesItsOwnItem ==
    \A e \in all_edges : \A d \in Descendants(e) : ~SameItem(e, d)

\* C2: once process_all has returned, complete_derivations is empty if and
\* only if the input is not derivable from the start nonterminal.
C2_EmptyIffNotDerivable ==
    Done => ( (complete_derivations = <<>>)
                <=> ~InLanguage(productions_by_lhs, input_string) )

\* C3: for a finitely ambiguous grammar, after process_all the list
\* complete_derivations holds exactly one edge per distinct derivation (parse
\* tree) of the input from the start nonterminal.  Stated of the runs whose
\* store is closed under completion, those in which no completion was missed,
\* on a list of productions that names no production twice.
C3_OneEdgePerDerivation ==
    (/\ Done
     /\ FinitelyAmbiguous(productions_by_lhs)
     /\ NoProductionTwice(productions_by_lhs)
     /\ ClosedUnderCompletion) =>
        /\ Len(complete_derivations)
             = Cardinality(Derivations(productions_by_lhs, input_string))
        /\ Cardinality(Range(complete_derivations)) = Len(complete_derivations)

\* C4: every edge in complete_derivations has start = 0, end = input length,
\* dot_pos = rhs length and a production of the start nonterminal.
C4_CompleteDerivationsAreSound ==
    \A i \in DOMAIN complete_derivations :
       LET e == complete_derivations[i]
       IN  /\ e.start = 0
           /\ e.end = Len(input_string)
           /\ e.dotted_rule.dot_pos = Len(e.dotted_rule.production.rhs)
           /\ e.dotted_rule.production.lhs = start

\* C4, its case: a derivation is recorded while a complete edge of the start
\* nonterminal that does not span the whole input is in the store.
C4_Witness ==
    /\ complete_derivations # <<>>
    /\ \E e \in all_edges :
          /\ is_complete(e.dotted_rule)
          /\ e.dotted_rule.production.lhs = start
          /\ e.end < Len(input_string)

\* The children of every node of the tree are, in order, one child per symbol
\* of a production of the node's nonterminal: a leaf for a terminal, a subtree
\* of the same kind for a nonterminal.
RECURSIVE FollowsProductions(_, _)
FollowsProductions(by_lhs, tree) ==
    IF tree.value.kind = "Terminal" THEN tree.children = <<>>
    ELSE /\ tree.value.sym \in DOMAIN by_lhs
         /\ \E p \in Range(by_lhs[tree.value.sym]) :
               /\ Len(tree.children) = Len(p.rhs)
               /\ \A k \in DOMAIN p.rhs : tree.children[k].value = p.rhs[k]
         /\ \A k \in DOMAIN tree.children :
               FollowsProductions(by_lhs, tree.children[k])

\* C5: the tree of every complete-derivation edge is rooted at the start
\* nonterminal, the children of every node are one child per symbol of the
\* node's production, each at its RHS position, and the leaves read left to
\* right are the input.
C5_TreeFollowsRhsOrder ==
    \A i \in DOMAIN complete_derivations :
       LET tree == generate_derivation_tree(complete_derivations[i])
       IN  /\ tree.value = Nt(start)
           /\ FollowsProductions(productions_by_lhs, tree)
           /\ Leaves(tree) = input_string

\* The left-branching tree of x x x under S -> S x | x.
LeftBranchingTree ==
    Tree(Nt("S"), << Tree(Nt("S"), << Tree(Nt("S"), << Tree(T("x"), <<>>) >>),
                                      Tree(T("x"), <<>>) >>),
                     Tree(T("x"), <<>>) >>)

\* C6: for S -> S x | x and input x x x, process_all returns with exactly one
\* complete derivation, whose tree is the left-branching tree of depth 3.
C6_LeftRecursionTree ==
    (Done /\ GrammarIs(G_LeftRec) /\ input_string = <<"x", "x", "x">>) =>
        /\ Len(complete_derivations) = 1
        /\ generate_derivation_trees(Chart) = << LeftBranchingTree >>

\* C7: for S -> A | B, A -> x, B -> x and input x, after process_all there are
\* exactly two complete derivations, with distinct trees both rooted at S.
C7_AmbiguityTwoTrees ==
    (Done /\ GrammarIs(G_Ambig) /\ input_string = <<"x">>) =>
        LET trees == generate_derivation_trees(Chart)
        IN  /\ Len(complete_derivations) = 2
            /\ trees[1] # trees[2]
            /\ trees[1].value = Nt("S")
            /\ trees[2].value = Nt("S")

\* C7, its case: process_all has returned on S -> A | B, A -> x, B -> x and x.
C7_Witness ==
    /\ Done /\ GrammarIs(G_Ambig) /\ input_string = <<"x">>
    /\ Len(complete_derivations) = 2

\* The nonterminals of the RHS that lie before the dot, in RHS order.
NonterminalsBeforeDot(dotted_rule) ==
    SelectSeq(SubSeq(dotted_rule.production.rhs, 1, dotted_rule.dot_pos),
              LAMBDA sym : sym.kind = "Nonterminal")

\* C8: every edge of the store has a history with exactly one entry per
\* Nonterminal of its RHS before the dot, in RHS order: the k-th entry is an
\* edge of the k-th such nonterminal.
C8_HistoryPerNonterminal ==
    \A e \in all_edges :
       LET expected == NonterminalsBeforeDot(e.dotted_rule)
       IN  /\ Len(e.history) = Len(expected)
           /\ \A k \in DOMAIN e.history :
                 Nt(e.history[k].dotted_rule.production.lhs) = expected[k]

\* C9: for a fixed grammar and input, the size of the edge store and the set
\* of complete derivations after process_all are the same on every run,
\* whatever the order in which Complete enumerates the edges of all_edges:
\* every Chart process_all can leave agrees with the one of this run.
C9_SameStoreOnEveryRun ==
    Done => \A other \in process_all(InitialChart) :
               /\ Cardinality(other.all_edges) = Cardinality(all_edges)
               /\ Range(other.complete_derivations) = Range(complete_derivations)

\* C10: if the pending edges are processed in any order, the run reaches the
\* final edge store and the set of complete derivations of the FIFO run.
C10_AnyOrderSameResult ==
    Done => \E fifo \in process_all(InitialChart) :
               /\ fifo.all_edges = all_edges
               /\ Range(fifo.complete_derivations) = Range(complete_derivations)

\* C11: in every reachable state complete_derivations contains no two
\* structurally equal edges (same rule, span and history), for every list of
\* productions handed to Chart::new, a list that names a production of the
\* start nonterminal twice included.
C11_NoDuplicateCompleteDerivations ==
    \A i, j \in DOMAIN complete_derivations :
       complete_derivations[i] = complete_derivations[j] => i = j

\* A Chart with what tracing adds to it taken away.
without_trace(c) == [ c EXCEPT !.trace = FALSE, !.trace_chart = <<>> ]

\* The calls of process_one made so far: those that returned an edge, and the
\* one that panicked if one did.
calls == Len(dequeued) + (IF err # InitialChart.err THEN 1 ELSE 0)

\* The runs of n calls of process_one from the Chart c, whose last call
\* returned ret: the Chart each run leaves and what its last call returned.
RECURSIVE runs(_, _, _)
runs(c, ret, n) ==
    IF n = 0 THEN { [ chart |-> c, returned |-> ret ] }
    ELSE IF c.err # "none" THEN {}
    ELSE UNION { runs(process_one(c, order),
                      process_one_returns(c, process_one(c, order)), n - 1) :
                 order \in iteration_orders(c) }

\* C12: a run with tracing enabled and a run with tracing disabled on the same
\* grammar and input agree, step for step, on the edge process_one returns, on
\* the worklist, on the edge store and on complete_derivations: whatever
\* set_trace was called with, the state after n calls of process_one is,
\* trace and trace_chart apart, one the run that never traces is in after n
\* calls.  add_to_trace_chart changes trace_chart only.
C12_TraceIsObservational ==
    /\ [ chart |-> without_trace(Chart), returned |-> returned ]
          \in runs(InitialChart, <<>>, calls)
    /\ \A e \in all_edges :
          without_trace(add_to_trace_chart(Chart, e)) = without_trace(Chart)

\* C12, its case: process_all has returned derivations in a run that logged
\* edges in trace_chart.
C12_Witness ==
    /\ Done
    /\ trace_chart # <<>>
    /\ complete_derivations # <<>>

\* C13: with tracing enabled from construction, every entry of trace_chart
\* has one index per edge of its edge's history, and each index is the
\* position of an earlier entry of trace_chart whose edge equals that history
\* edge, never an out-of-range sentinel: also when the history edge is the
\* seed edge of an empty production of the start nonterminal.
C13_TraceIndicesAreValid ==
    traced_all =>
       \A k \in DOMAIN trace_chart :
          LET edge == trace_chart[k][1]
              indices == trace_chart[k][2]
          IN  /\ Len(indices) = Len(edge.history)
              /\ \A i \in DOMAIN indices :
                    /\ indices[i] # usize_MAX
                    /\ \E j \in 0..(k - 2) :
                          /\ indices[i] = usize(j)
                          /\ trace_chart[j + 1][1] = edge.history[i]

\* C14: process_one called when the worklist is empty panics instead of
\* returning an edge, and process_all never makes such a call: each iteration
\* of its loop calls process_one on a worklist that is not empty, and that
\* call does not end in the panic of the empty worklist.
C14_EmptyWorklistPanics ==
    [][ /\ Call_process_one =>
              /\ to_process = <<>>
              /\ err' = "No processing left!"
              /\ returned' = <<>>
              /\ dequeued' = dequeued
        /\ Step_process_all =>
              /\ to_process # <<>>
              /\ err' # "No processing left!" ]_vars

\* C14, its case: process_all has dequeued edges until the worklist was empty
\* and a further call of process_one has panicked.
C14_Witness ==
    /\ err = "No processing left!"
    /\ dequeued # <<>>
    /\ to_process = <<>>
    /\ returned = <<>>

\* C15: Chart::new panics, producing no Chart, exactly when none of the
\* productions it is given has the start nonterminal as its LHS; given at
\* least one production of the start nonterminal it returns a Chart.
C15_NewPanicsIffNoStartProduction ==
    LET none_of_start ==
            \A p \in ProductionsOf(productions_by_lhs) : p.lhs # start
    IN  /\ none_of_start <=> (InitialChart.err # "none")
        /\ none_of_start <=> (err = "No starting productions")
        /\ none_of_start =>
              /\ all_edges = {}
              /\ to_process = <<>>
              /\ dequeued = <<>>
              /\ toggles = 0

\* C15, its case: Chart::new was handed productions of another nonterminal
\* only, and has panicked.
C15_Witness ==
    /\ err = "No starting productions"
    /\ DOMAIN productions_by_lhs # {}
    /\ start \notin DOMAIN productions_by_lhs

\* C16: when the worklist is empty after process_all, the edge store is closed
\* under completion: for every complete edge C of the store and every edge W
\* of the store whose next symbol is the nonterminal C.lhs and whose end is
\* C.start, the edge with W's rule advanced by one, span [W.start, C.end) and
\* history W.history + [C] is in the store, whether W entered the store before
\* or after C was dequeued.
C16_ClosedUnderCompletionWhenDone ==
    Done =>
       \A C \in all_edges : \A W \in all_edges :
          ( /\ is_complete(C.dotted_rule)
            /\ next_symbol(W.dotted_rule) = Nt(C.dotted_rule.production.lhs)
            /\ W.end = C.start )
          => ChartEdge([ production |-> W.dotted_rule.production,
                         dot_pos |-> W.dotted_rule.dot_pos + 1 ],
                       W.start, C.end, Append(W.history, C)) \in all_edges

\* C17: over a whole run no edge is dequeued (returned by process_one) more
\* than once: an edge enters the worklist only when no structurally equal
\* edge is in the store.  (That the store only grows is not in question:
\* nothing removes from all_edges.)
C17_NoEdgeDequeuedTwice ==
    \A i, j \in DOMAIN dequeued : dequeued[i] = dequeued[j] => i = j

\* C18: immediately after Chart::new the worklist holds exactly one edge per
\* production of the start nonterminal, each with dot_pos = 0, start = end = 0
\* and an empty history, the dedup set holds exactly the same edges,
\* complete_derivations is empty and trace_chart is empty.
C18_StateAfterNew ==
    (err = "none" /\ dequeued = <<>>) =>
       LET prods == productions_by_lhs[start]
       IN  /\ Len(to_process) = Len(prods)
           /\ \A i \in DOMAIN to_process :
                 /\ to_process[i].dotted_rule.production = prods[i]
                 /\ to_process[i].dotted_rule.dot_pos = 0
                 /\ to_process[i].start = 0
                 /\ to_process[i].end = 0
                 /\ to_process[i].history = <<>>
           /\ all_edges = { to_process[i] : i \in DOMAIN to_process }
           /\ complete_derivations = <<>>
           /\ trace_chart = <<>>

\* C18, its case: Chart::new has returned for a list of several productions of
\* the start nonterminal, one of them named twice, and nothing has been
\* processed yet.
C18_Witness ==
    /\ err = "none"
    /\ dequeued = <<>>
    /\ Len(to_process) = 3
    /\ Cardinality(all_edges) = 2

\* The edge expects a terminal.
ExpectsTerminal(edge) == next_symbol(edge.dotted_rule).kind = "Terminal"

\* The input holds, at the end of the edge, the terminal the edge expects.
InputHasExpected(edge) ==
    /\ edge.end < Len(input_string)
    /\ input_string[edge.end + 1] = next_symbol(edge.dotted_rule).sym

\* C19: a process_one step whose dequeued edge expects a terminal that differs
\* from the input token at edge.end, or whose edge.end is the end of the
\* input, adds no edge and raises no error: the edge store,
\* complete_derivations and trace_chart are unchanged and the worklist only
\* loses its head.  When the token matches, exactly one candidate edge, with
\* the dot advanced by one and the span [start, end + 1), is offered to the
\* insertion gate: it is either in the store already and nothing but the head
\* of the worklist changes, or it is the one edge added to the store and to
\* the back of the worklist.
C19_ScanFrame ==
    [][ (Step_process_all /\ ExpectsTerminal(Head(to_process))) =>
          LET edge == Head(to_process)
              IsCandidate(n) ==
                  /\ n.dotted_rule.production = edge.dotted_rule.production
                  /\ n.dotted_rule.dot_pos = edge.dotted_rule.dot_pos + 1
                  /\ n.start = edge.start
                  /\ n.end = edge.end + 1
          IN  /\ err' = "none"
              /\ returned' = << edge >>
              /\ complete_derivations' = complete_derivations
              /\ IF ~InputHasExpected(edge)
                 THEN /\ all_edges' = all_edges
                      /\ trace_chart' = trace_chart
                      /\ to_process' = Tail(to_process)
                 ELSE \E n \in all_edges' :
                        /\ IsCandidate(n)
                        /\ \/ /\ n \in all_edges
                              /\ all_edges' = all_edges
                              /\ trace_chart' = trace_chart
                              /\ to_process' = Tail(to_process)
                           \/ /\ n \notin all_edges
                              /\ all_edges' = all_edges \cup {n}
                              /\ to_process' = Append(Tail(to_process), n)
                              /\ Len(trace_chart') = Len(trace_chart) + (IF trace THEN 1 ELSE 0)
      ]_vars

\* C19, its case: the call of process_one that has just returned dequeued an
\* edge expecting a terminal other than the token at its end, after a call
\* that dequeued an edge whose terminal matched.
C19_Witness ==
    /\ err = "none"
    /\ returned # <<>>
    /\ ExpectsTerminal(returned[1])
    /\ returned[1].end < Len(input_string)
    /\ ~InputHasExpected(returned[1])
    /\ \E i \in DOMAIN dequeued :
          /\ ExpectsTerminal(dequeued[i])
          /\ InputHasExpected(dequeued[i])

\* The edges dequeued so far followed by the edges still pending.
EnqueueOrder == dequeued \o to_process

\* seq is a prefix of longer.
IsPrefix(seq, longer) ==
    Len(seq) <= Len(longer) /\ SubSeq(longer, 1, Len(seq)) = seq

\* C20: edges are dequeued in exactly the order in which they were enqueued:
\* the seed edges first, in production order, then the edges the insertion
\* gate accepted, in the order of acceptance.  Every call of process_one
\* returns the oldest pending edge and what it enqueues goes behind every
\* edge enqueued before.  With tracing enabled from construction, trace_chart
\* lists exactly the edges the gate accepted, in that same order.
C20_DequeueOrderIsEnqueueOrder ==
    /\ [] ( err = "none" =>
              LET prods == productions_by_lhs[start]
                  seeds == SubSeq(EnqueueOrder, 1, Len(prods))
                  accepted == SubSeq(EnqueueOrder, Len(prods) + 1, Len(EnqueueOrder))
              IN  /\ Len(EnqueueOrder) >= Len(prods)
                  /\ \A i \in DOMAIN prods :
                        /\ seeds[i].dotted_rule.production = prods[i]
                        /\ seeds[i].dotted_rule.dot_pos = 0
                  /\ \A i \in DOMAIN accepted : \A j \in DOMAIN accepted :
                        accepted[i] = accepted[j] => i = j
                  /\ Range(seeds) \cup Range(accepted) = all_edges
                  /\ traced_all =>
                        /\ Len(trace_chart) = Len(accepted)
                        /\ \A i \in DOMAIN accepted : trace_chart[i][1] = accepted[i] )
    /\ [][ err' = "none" =>
              /\ IsPrefix(EnqueueOrder, EnqueueOrder')
              /\ dequeued' # dequeued =>
                    /\ to_process # <<>>
                    /\ dequeued' = Append(dequeued, Head(to_process))
                    /\ IsPrefix(Tail(to_process), to_process') ]_vars

\* C20, its case: process_all has returned with tracing enabled from
\* construction, having dequeued several seed edges and then the edges the
\* gate accepted, which trace_chart lists.
C20_Witness ==
    /\ Done
    /\ traced_all
    /\ Len(productions_by_lhs[start]) > 1
    /\ Len(trace_chart) > 2
    /\ Len(dequeued) = Len(productions_by_lhs[start]) + Len(trace_chart)

\* The nonterminals that occur on a RHS of the grammar and have no production.
UndefinedNonterminals(by_lhs) ==
    { sym.sym : sym \in { s \in UNION { Range(p.rhs) : p \in ProductionsOf(by_lhs) } :
                            s.kind = "Nonterminal" /\ s.sym \notin DOMAIN by_lhs } }

\* The edge expects a nonterminal that has no production.
ExpectsUndefined(edge) ==
    /\ next_symbol(edge.dotted_rule).kind = "Nonterminal"
    /\ next_symbol(edge.dotted_rule).sym \in UndefinedNonterminals(productions_by_lhs)

\* C21: a nonterminal that occurs on some RHS and has no production makes the
\* run panic exactly at the process_one step that dequeues an edge whose next
\* symbol is that nonterminal (Predict), and that call returns no edge.
\* Chart::new does not reject such a grammar, and a step of process_all that
\* dequeues no such edge ends without error.
C21_UndefinedNonterminalPanicsAtPredict ==
    /\ [] ( /\ (start \in DOMAIN productions_by_lhs) => InitialChart.err = "none"
            /\ (err = "Expected non-terminal to have a production") =>
                  UndefinedNonterminals(productions_by_lhs) # {} )
    /\ [][ Step_process_all =>
             IF ExpectsUndefined(Head(to_process))
             THEN /\ err' = "Expected non-terminal to have a production"
                  /\ returned' = <<>>
                  /\ dequeued' = dequeued
                  /\ all_edges' = all_edges
             ELSE err' = "none" ]_vars

\* C21, its case: Chart::new accepted a grammar with a nonterminal that has no
\* production, process_one returned edges, and the call that dequeued an edge
\* expecting that nonterminal has panicked.
C21_Witness ==
    /\ err = "Expected non-terminal to have a production"
    /\ InitialChart.err = "none"
    /\ dequeued # <<>>
    /\ \E e \in all_edges : e \notin Range(dequeued) /\ ExpectsUndefined(e)

\* How deep the nonterminal nodes of a tree nest.
RECURSIVE NonterminalHeight(_)
NonterminalHeight(tree) ==
    IF tree.value.kind = "Terminal" THEN 0
    ELSE LET below == { NonterminalHeight(tree.children[i]) : i \in DOMAIN tree.children }
         IN  1 + (IF below = {} THEN 0
                  ELSE CHOOSE d \in below : \A b \in below : b <= d)

\* C22: for every edge of the store, every history entry is a complete edge
\* whose span lies inside the edge's own span (edge.start <= h.start <= h.end
\* <= edge.end) and whose history nests strictly less deep, so that
\* generate_derivation_tree ends on every edge, with a tree that nests as deep
\* as the history: also for edges built from zero-width completions of
\* nonterminals that derive the empty string.
C22_HistoryIsWellFounded ==
    \A e \in all_edges :
       /\ \A i \in DOMAIN e.history :
             LET h == e.history[i]
             IN  /\ h.dotted_rule.dot_pos = Len(h.dotted_rule.production.rhs)
                 /\ e.start <= h.start
                 /\ h.start <= h.end
                 /\ h.end <= e.end
                 /\ Depth(h) < Depth(e)
       /\ NonterminalHeight(generate_derivation_tree(e)) = Depth(e) + 1

\* C22, its case: the store holds a complete edge whose history starts with a
\* zero-width completion of an empty production and goes on with a completion
\* that spans input.
C22_Witness ==
    \E e \in all_edges :
       /\ is_complete(e.dotted_rule)
       /\ Len(e.history) = 2
       /\ e.history[1].dotted_rule.production.rhs = <<>>
       /\ e.history[1].start = e.history[1].end
       /\ e.history[2].start < e.history[2].end

\* C23: in every reachable state every edge of the edge store and of the
\* worklist has 0 <= start <= end <= input length and dot_pos <= rhs length,
\* and no step advances a dot past the end of its RHS: the panics of
\* advanced_dot and of into_dotted_rule are reached neither from Chart::new
\* nor from process_one or process_all.
C23_EdgesWithinBounds ==
    /\ \A e \in all_edges \cup Range(to_process) \cup Range(dequeued) :
          /\ 0 <= e.start
          /\ e.start <= e.end
          /\ e.end <= Len(input_string)
          /\ 0 <= e.dotted_rule.dot_pos
          /\ e.dotted_rule.dot_pos <= Len(e.dotted_rule.production.rhs)
    /\ err # "Attempted to advance dot when nowhere to advance to"
    /\ err # "Attempted to create dotted rule"
    /\ InitialChart.err # "Attempted to create dotted rule"

\* C23, its case: the store holds a complete edge of a production with a
\* RHS that ends at the end of the input, and process_one has dequeued an
\* edge that expected a terminal at the end of the input, and complete edges.
C23_Witness ==
    /\ err = "none"
    /\ \E e \in all_edges :
          /\ e.dotted_rule.dot_pos = Len(e.dotted_rule.production.rhs)
          /\ e.dotted_rule.dot_pos > 0
          /\ e.end = Len(input_string)
          /\ e \in Range(dequeued)
    /\ \E d \in Range(dequeued) :
          /\ ExpectsTerminal(d)
          /\ d.end = Len(input_string)

\* The edge is a valid Earley item: the symbols of its RHS before the dot
\* derive the tokens input[start..end).  D is Derivable(by_lhs, input).
IsValidItem(edge, D, input) ==
    /\ edge.start <= edge.end
    /\ edge.end <= Len(input)
    /\ edge.dotted_rule.dot_pos <= Len(edge.dotted_rule.production.rhs)
    /\ RhsDerives(SubSeq(edge.dotted_rule.production.rhs, 1, edge.dotted_rule.dot_pos),
                  1, edge.start, edge.end, D, input)

\* C24: in every reachable state every edge of the edge store is a valid
\* Earley item: the RHS symbols of its rule before the dot derive exactly the
\* input tokens input[start..end) under the grammar.  Hence, whenever
\* complete_derivations is not empty, the input is in the language of the
\* start nonterminal.
C24_EdgesAreValidItems ==
    /\ \A e \in all_edges : IsValidItem(e, derivable, input_string)
    /\ complete_derivations # <<>> => << start, 0, Len(input_string) >> \in derivable

\* C24, its case: a derivation is recorded and the store holds an edge with
\* the dot inside its RHS, past a nonterminal, that spans input.
C24_Witness ==
    /\ complete_derivations # <<>>
    /\ \E e \in all_edges :
          /\ 0 < e.dotted_rule.dot_pos
          /\ e.dotted_rule.dot_pos < Len(e.dotted_rule.production.rhs)
          /\ e.dotted_rule.production.rhs[e.dotted_rule.dot_pos].kind = "Nonterminal"
          /\ e.start < e.end

====
